---- MODULE Spec2Model ----
(***************************************************************************)
(* Deployment orchestration core of the Power BI / Fabric CI/CD scripts:   *)
(*   scripts/utils.py      transport, operation tracker, packager,         *)
(*                         item publisher, report workaround               *)
(*   scripts/deploy.py     mapping-driven deployment driver                *)
(*   scripts/deploy-dev.py single-workspace deployment driver              *)
(*                                                                         *)
(* The module holds several specifications over one set of variables:      *)
(*   TrackerSpec  wait_for_long_running_operation, one poll per step       *)
(*   TrackerFairSpec  the same, with the loop never suspended              *)
(*   Spec         the deployment drivers, the item publisher and the       *)
(*                remote service they talk to                              *)
(*   TwiceSpec    the item publisher called twice for one artifact, on a   *)
(*                service whose listing may lag behind a create            *)
(*   ResolverSpec get_workspace_for_artifact and                           *)
(*                get_dataset_location_for_artifact against one mapping    *)
(*   PackSpec     the packaging of one folder, plain and with the          *)
(*                dataset reference rewritten                              *)
(***************************************************************************)
EXTENDS Integers, Sequences, FiniteSets, TLC

VARIABLES
    \* ---- wait_for_long_running_operation (utils.py:170-234) ----
    max_wait_seconds,   \* parameter
    poll_interval,      \* parameter
    elapsed,            \* time.time() - start_time
    attempt,            \* polls issued
    tpc,                \* "loop" | "done"
    tresult,            \* "none" | "returned" | "FabricApiError_operation"
                        \* | "FabricApiError_timeout" | "AttributeError"
    treturn,            \* the document returned, NoDoc before
    error_info,         \* payload carried by the operation error
    served,             \* what the status endpoint answered, poll by poll
    \* ---- the remote service ----
    items,              \* the items that exist: [id, displayName, type, ws]
    ops,                \* accepted asynchronous creates: [id, displayName, type, ws, status]
    next_id,            \* next identifier the service hands out
    bound,              \* <<report id, dataset id>> pairs set by Rebind
    \* ---- one invocation of the item publisher (utils.py:387-674) ----
    pub,
    \* ---- the deployment driver (deploy.py:202-297, deploy-dev.py:11-102) ----
    script,             \* "deploy" | "deploy-dev" | "none"
    workspace_mapping,  \* the loaded mapping file (deploy.py)
    run,                \* 1 for the first run, +1 for every re-run
    dpc,                \* "start" | "semantic" | "reports" | "done" | "crashed"
                        \* | "fatal" | "killed" | "off"
    sm_left,            \* semantic-model folders not yet iterated
    rp_left,            \* report folders not yet iterated
    attempted,          \* folders whose loop body has started in this run
    finished,           \* folders whose loop body has ended in this run
    error_of,           \* per folder, the error its loop body raised in this run
    succeeded,          \* folders whose publish returned in this run
    exit_status,        \* "running" | "0" | "1"
    \* ---- two publishes in sequence ----
    calls,              \* publisher invocations started
    first,              \* what the first invocation did
    \* ---- history ----
    raced,              \* keys looked up as absent while a create was pending
    \* ---- one call of get_workspace_for_artifact (deploy.py:29-80) ----
    query,              \* its arguments, NoQuery before the call
    resolved,           \* what it returned, WorkspaceNotMapped for the ValueError
    located,            \* what get_dataset_location_for_artifact returned
    \* ---- get_access_token_spn (utils.py:26-60) ----
    environ,            \* the three credential variables of the process
    token_requests,     \* requests sent to the token endpoint
    start_error,        \* the error that ended the run before its loops
    \* ---- packaging (utils.py:136-167, 427-458) ----
    platform,           \* "posix" | "nt"
    tree,               \* the regular files under the folder
    parts,              \* the parts built, in the order of the walk
    pack_error,         \* "none" | "ValueError"
    pack_call           \* which packaging ran, and the dataset it was given

tvars == <<max_wait_seconds, poll_interval, elapsed, attempt, tpc, tresult,
           treturn, error_info, served>>
rvars == <<items, ops, next_id, bound>>
dvars == <<script, workspace_mapping, run, dpc, sm_left, rp_left, attempted,
           finished, error_of, succeeded, exit_status>>
hvars == <<calls, first>>
mvars == <<query, resolved, located>>
avars == <<environ, token_requests, start_error>>
pvars == <<platform, tree, parts, pack_error, pack_call>>

vars == <<max_wait_seconds, poll_interval, elapsed, attempt, tpc, tresult,
          treturn, error_info, served, items, ops, next_id, bound, pub,
          script, workspace_mapping, run, dpc, sm_left, rp_left, attempted,
          finished, error_of, succeeded, exit_status, calls, first, raced,
          query, resolved, located, environ, token_requests, start_error,
          platform, tree, parts, pack_error, pack_call>>

(***************************************************************************)
(* Bounds of the tracker model.                                            *)
(***************************************************************************)
MaxWait == 3
MaxInterval == 2

(***************************************************************************)
(* Answers of the operation status endpoint to one GET.                    *)
(*   kind "exception"  requests.get raised (network, TLS, DNS)             *)
(*        "not_ok"     a response whose status is not 2xx/3xx              *)
(*        "bad_json"   resp.json() raised                                  *)
(*        "non_object" resp.json() is valid JSON but no object             *)
(*        "object"     resp.json() is an object                            *)
(*   statusKind "missing" (no "status" key), "string", or "non_string"     *)
(*        (null, number, ...), for an object                               *)
(***************************************************************************)
StatusStrings ==
    {"Succeeded", "SUCCEEDED", "Completed", "Failed", "Cancelled", "CANCELLED",
     "Running", "NotStarted", "InProgress", "Undefined", "Canceled", ""}

NoError == "<no error key>"
ErrorPayloads == {"{code: ItemFailed}"}

Resp(k, sk, s, e) == [kind |-> k, statusKind |-> sk, status |-> s, error |-> e]

NoDoc == Resp("none", "missing", "", NoError)

FailedPolls == {Resp(k, "missing", "", NoError) : k \in {"exception", "not_ok", "bad_json"}}

ShapelessPolls ==
    {Resp("non_object", "missing", "", NoError), Resp("object", "non_string", "", NoError)}

StatusPolls ==
    {Resp("object", "string", s, NoError) : s \in StatusStrings}
    \cup {Resp("object", "missing", "", NoError)}
    \cup {Resp("object", "string", s, e) : s \in {"Failed", "Cancelled"}, e \in ErrorPayloads}

Responses == FailedPolls \cup ShapelessPolls \cup StatusPolls

(***************************************************************************)
(* str.lower() on the status strings of the model.                         *)
(***************************************************************************)
Lower(s) ==
    CASE s \in {"Succeeded", "SUCCEEDED"} -> "succeeded"
      [] s = "Completed" -> "completed"
      [] s = "Failed" -> "failed"
      [] s \in {"Cancelled", "CANCELLED"} -> "cancelled"
      [] s = "Running" -> "running"
      [] s = "NotStarted" -> "notstarted"
      [] s = "InProgress" -> "inprogress"
      [] s = "Undefined" -> "undefined"
      [] s = "Canceled" -> "canceled"
      [] OTHER -> s

\* while (time.time() - start_time) < max_wait_seconds
LoopGuard == elapsed < max_wait_seconds

\* the try block: requests.get raising, not resp.ok, resp.json() raising
SwallowedPoll(resp) == resp.kind \in {"exception", "not_ok", "bad_json"}

\* operation_status.get("status", "").lower(), outside the try block:
\* .get on a non-object and .lower() on a non-string raise AttributeError
StatusRaises(resp) ==
    resp.kind = "non_object" \/ (resp.kind = "object" /\ resp.statusKind = "non_string")

StatusOf(resp) == IF resp.statusKind = "missing" THEN "" ELSE Lower(resp.status)

Branch_NoCompleted(status) ==
    IF status \in {"succeeded"} THEN "return"
    ELSE IF status \in {"failed", "cancelled"} THEN "raise"
    ELSE "sleep"

Branch_UnknownFatal(status) ==
    IF status \in {"succeeded", "completed"} THEN "return"
    ELSE IF status \in {"failed", "cancelled"} THEN "raise"
    ELSE IF status \in {"running", "notstarted", "inprogress"} THEN "sleep"
    ELSE "raise"

\* the if / elif chain on status: what the loop body does next
Branch(status) ==
    IF status \in {"succeeded", "completed"} THEN "return"
    ELSE IF status \in {"failed", "cancelled"} THEN "raise"
    ELSE IF status \in {"running", "notstarted", "inprogress"} THEN "sleep"
    ELSE "sleep"

ErrorInfo_WholeDocument(resp) == resp

\* error_info = operation_status.get("error", operation_status)
ErrorInfo(resp) == IF resp.error # NoError THEN Resp("error_field", "missing", "", resp.error) ELSE resp

AfterLoop_SilentContinue == "returned"

\* the statement after the while loop
AfterLoop == "FabricApiError_timeout"

(***************************************************************************)
(* One iteration of the polling loop, with the endpoint's answer.          *)
(***************************************************************************)
TPoll(resp) ==
    /\ tpc = "loop"
    /\ LoopGuard
    /\ attempt' = attempt + 1
    /\ served' = Append(served, resp)
    /\ UNCHANGED <<max_wait_seconds, poll_interval>>
    /\ IF SwallowedPoll(resp)
       THEN /\ elapsed' = elapsed + poll_interval
            /\ UNCHANGED <<tpc, tresult, treturn, error_info>>
       ELSE IF StatusRaises(resp)
       THEN /\ tpc' = "done"
            /\ tresult' = "AttributeError"
            /\ UNCHANGED <<elapsed, treturn, error_info>>
       ELSE CASE Branch(StatusOf(resp)) = "return" ->
                    /\ tpc' = "done"
                    /\ tresult' = "returned"
                    /\ treturn' = resp
                    /\ UNCHANGED <<elapsed, error_info>>
              [] Branch(StatusOf(resp)) = "raise" ->
                    /\ tpc' = "done"
                    /\ tresult' = "FabricApiError_operation"
                    /\ error_info' = ErrorInfo(resp)
                    /\ UNCHANGED <<elapsed, treturn>>
              [] OTHER ->
                    /\ elapsed' = elapsed + poll_interval
                    /\ UNCHANGED <<tpc, tresult, treturn, error_info>>
    /\ UNCHANGED <<rvars, pub, dvars, hvars, raced, mvars, avars, pvars>>

\* the loop condition is false: raise FabricApiError("Timeout ...")
TTimeout ==
    /\ tpc = "loop"
    /\ ~LoopGuard
    /\ tpc' = "done"
    /\ tresult' = AfterLoop
    /\ UNCHANGED <<max_wait_seconds, poll_interval, elapsed, attempt, treturn,
                   error_info, served>>
    /\ UNCHANGED <<rvars, pub, dvars, hvars, raced, mvars, avars, pvars>>


(***************************************************************************)
(* Source tree of a run.  A folder name is kept as its dot-separated       *)
(* tokens, <<"Sales", ".SemanticModel">>, so that the three ways the code  *)
(* derives a name from it can be computed.                                 *)
(***************************************************************************)
RECURSIVE Concat(_)
Concat(tokens) == IF tokens = <<>> THEN "" ELSE Head(tokens) \o Concat(Tail(tokens))

SemanticFolders == {<<"Hr", ".SemanticModel">>, <<"Sales", ".SemanticModel">>}
ReportFolders == {<<"HrReport", ".Report">>, <<"SalesReport", ".Report">>}
Folders == SemanticFolders \cup ReportFolders
\* folders that hold no regular file
EmptyFolders == {<<"Empty", ".SemanticModel">>, <<"EmptyReport", ".Report">>}

\* the folders in sorted() order
SortedFolders ==
    << <<"Hr", ".SemanticModel">>, <<"Sales", ".SemanticModel">>,
       <<"HrReport", ".Report">>, <<"SalesReport", ".Report">> >>
Rank(folder) == CHOOSE i \in 1..Len(SortedFolders) : SortedFolders[i] = folder

\* relative paths of the regular files under a folder
FolderFiles(folder) ==
    IF folder \in EmptyFolders THEN {}
    ELSE IF folder \in SemanticFolders THEN {"definition.pbism", "definition/model.tmdl"}
    ELSE {"definition.pbir", "definition/report.json"}

\* definition.pbir of a report folder: datasetReference.byPath.path, as its
\* "/"-separated segments, each in tokens
PbirByPath(folder) ==
    CASE folder = <<"SalesReport", ".Report">> -> << <<"..">>, <<"Sales", ".SemanticModel">> >>
      [] folder = <<"HrReport", ".Report">> -> << <<"..">>, <<"Hr", ".SemanticModel">> >>
      [] OTHER -> <<>>

\* Path(folder).stem: the name without its last suffix
Stem(folder) == IF Len(folder) > 1 THEN Concat(SubSeq(folder, 1, Len(folder) - 1)) ELSE Concat(folder)
\* os.path.basename(folder).split(".", 1)[0]
DisplayName(folder) == folder[1]
\* os.path.basename(pbip_folder).replace(".Report", "")
ReportName(folder) == Concat(SelectSeq(folder, LAMBDA t : t # ".Report"))
\* path.split("/")[-1].replace(".SemanticModel", "")
DatasetNameOfPath(path) ==
    IF path = <<>> THEN ""
    ELSE Concat(SelectSeq(path[Len(path)], LAMBDA t : t # ".SemanticModel"))

\* what each driver's folder search finds: glob "src/*.SemanticModel" finds
\* every folder, rglob("*.SemanticModel/*") only folders that hold a file
Found(scr, all) == IF scr = "deploy-dev" THEN {f \in all : FolderFiles(f) # {}} ELSE all

(***************************************************************************)
(* The workspace mapping file and its resolution (deploy.py).              *)
(***************************************************************************)
NoneVal == "<None>"
Truthy(v) == v \notin {NoneVal, ""}
Get(m, k) == IF k \in DOMAIN m THEN m[k] ELSE NoneVal
DeployEnv == "dev"
DevWorkspace == "W1"
Workspaces == {"W1", "W2"}
NoLocation == [workspace_id |-> NoneVal, dataset_name |-> NoneVal]

MappingDefaultOnly ==
    "default" :> (("semanticmodel" :> ("dev" :> "W1")) @@ ("report" :> ("dev" :> "W1")))

MappingPerArtifact ==
    ("Sales" :> ("semanticmodel" :> ("dev" :> "W1")))
    @@ ("SalesReport" :> (("report" :> ("dev" :> "W2"))
                          @@ ("dataset_location" :>
                                ("dev" :> [workspace_id |-> "W1", dataset_name |-> "Sales"]))))

Mappings == {MappingDefaultOnly, MappingPerArtifact}

\* no return statement was reached in an entry
FallThrough == "<fall through>"
\* the ValueError of deploy.py:78-80
WorkspaceNotMapped == "<ValueError>"

LookupEntry_ReturnsWhateverIsThere(config, type_key, environment) ==
    IF type_key \in DOMAIN config
    THEN Get(config[type_key], environment)
    ELSE IF environment \in DOMAIN config
    THEN Get(config, environment)
    ELSE FallThrough

\* one entry of the mapping: the type-specific sub-map if the entry has one,
\* else (elif) the legacy flat environment key; a value is returned only if
\* it is truthy
LookupEntry(config, type_key, environment) ==
    IF type_key \in DOMAIN config
    THEN LET workspace_id == Get(config[type_key], environment)
         IN IF Truthy(workspace_id) THEN workspace_id ELSE FallThrough
    ELSE IF environment \in DOMAIN config
    THEN LET workspace_id == Get(config, environment)
         IN IF Truthy(workspace_id) THEN workspace_id ELSE FallThrough
    ELSE FallThrough

\* get_workspace_for_artifact: the artifact's entry, then the default entry,
\* then the ValueError
GetWorkspaceForArtifact(artifact_name, item_type, environment, mapping) ==
    LET type_key == IF item_type = "SemanticModel" THEN "semanticmodel" ELSE "report"
        own == IF artifact_name \in DOMAIN mapping
               THEN LookupEntry(mapping[artifact_name], type_key, environment)
               ELSE FallThrough
        dflt == IF "default" \in DOMAIN mapping
                THEN LookupEntry(mapping["default"], type_key, environment)
                ELSE FallThrough
    IN IF own # FallThrough THEN own
       ELSE IF dflt # FallThrough THEN dflt
       ELSE WorkspaceNotMapped

GetDatasetLocationForArtifact_FlatOnlyWithoutSubMap(artifact_name, environment, mapping) ==
    IF artifact_name \notin DOMAIN mapping THEN NoLocation
    ELSE LET config == mapping[artifact_name]
             explicit == IF "dataset_location" \in DOMAIN config
                            /\ environment \in DOMAIN config["dataset_location"]
                         THEN config["dataset_location"][environment]
                         ELSE NoLocation
         IN IF explicit # NoLocation THEN explicit
            ELSE LET workspace_id == LookupEntry(config, "semanticmodel", environment)
                 IN IF workspace_id = FallThrough THEN NoLocation
                    ELSE [workspace_id |-> workspace_id, dataset_name |-> artifact_name]

\* get_dataset_location_for_artifact: NoLocation stands for None
GetDatasetLocationForArtifact(artifact_name, environment, mapping) ==
    IF artifact_name \notin DOMAIN mapping THEN NoLocation
    ELSE LET config == mapping[artifact_name]
             explicit == IF "dataset_location" \in DOMAIN config
                            /\ environment \in DOMAIN config["dataset_location"]
                         THEN config["dataset_location"][environment]
                         ELSE NoLocation
             sm == IF "semanticmodel" \in DOMAIN config
                   THEN Get(config["semanticmodel"], environment) ELSE NoneVal
             flat == IF environment \in DOMAIN config THEN Get(config, environment) ELSE NoneVal
         IN IF explicit # NoLocation THEN explicit
            ELSE IF Truthy(sm) THEN [workspace_id |-> sm, dataset_name |-> artifact_name]
            ELSE IF Truthy(flat) THEN [workspace_id |-> flat, dataset_name |-> artifact_name]
            ELSE NoLocation

(***************************************************************************)
(* One call of get_workspace_for_artifact against a mapping file.  The     *)
(* entries of the file are drawn from every shape the lookup tells apart:  *)
(* each type-specific sub-map absent, holding the environment, holding it  *)
(* empty, or holding another environment only; the flat environment key    *)
(* absent, set or empty.                                                   *)
(***************************************************************************)
\* a mapping without keys
EmptyMapping == [k \in {} |-> NoneVal]
\* a type-specific sub-map under key k: absent, holding the environment,
\* holding it empty, holding another environment only
SubMaps(k, workspace_id) ==
    {EmptyMapping, k :> (DeployEnv :> workspace_id), k :> (DeployEnv :> ""),
     k :> ("prp" :> workspace_id)}
\* the legacy flat environment key: absent, set, empty
FlatKeys(workspace_id) == {EmptyMapping, DeployEnv :> workspace_id, DeployEnv :> ""}
\* the entries an artifact or the default can have: typed is the workspace
\* its sub-maps name, flat the one its flat key names
Entries(typed, flat) ==
    {sm @@ rp @@ fl :
        sm \in SubMaps("semanticmodel", typed),
        rp \in {EmptyMapping, "report" :> (DeployEnv :> typed)},
        fl \in FlatKeys(flat)}
\* the dataset_location key of an entry: absent, holding a location for the
\* environment, holding null for it, holding another environment only
DatasetLocations(workspace_id) ==
    LET location == [workspace_id |-> workspace_id, dataset_name |-> "SalesModel"]
    IN {EmptyMapping, "dataset_location" :> (DeployEnv :> location),
        "dataset_location" :> (DeployEnv :> NoLocation),
        "dataset_location" :> ("prp" :> location)}
MappedArtifact == "Sales"
ResolverMappings ==
    {own @@ dflt :
        own \in {EmptyMapping} \cup
                {MappedArtifact :> (e @@ dl) : e \in Entries("W1", "W2"),
                                              dl \in DatasetLocations("W5")},
        dflt \in {EmptyMapping} \cup
                 {"default" :> (e @@ dl) : e \in Entries("W3", "W4"),
                                          dl \in {EmptyMapping,
                                                  "dataset_location" :>
                                                      (DeployEnv :> [workspace_id |-> "W6",
                                                                     dataset_name |-> "Any"])}}}
        \ {EmptyMapping}
\* get_dataset_location_for_artifact has not been called
NotLocated == [workspace_id |-> "<not called>", dataset_name |-> "<not called>"]
NoQuery == [artifact_name |-> "", item_type |-> "", environment |-> ""]
Queries ==
    [artifact_name : {MappedArtifact, "Hr"}, item_type : {"SemanticModel", "Report"},
     environment : {DeployEnv}]

\* load_workspace_mapping has loaded the file (deploy.py:231)
Resolver_Load(mapping) ==
    /\ workspace_mapping = EmptyMapping /\ query = NoQuery
    /\ workspace_mapping' = mapping
    /\ UNCHANGED <<script, run, dpc, sm_left, rp_left, attempted, finished, error_of,
                   succeeded, exit_status>>
    /\ UNCHANGED <<tvars, rvars, pub, hvars, raced, mvars, avars, pvars>>

\* workspace_id = get_workspace_for_artifact(...) (deploy.py:243-248, 273-278)
Resolver_Call(q) ==
    /\ workspace_mapping # EmptyMapping /\ query = NoQuery
    /\ query' = q
    /\ resolved' = GetWorkspaceForArtifact(q.artifact_name, q.item_type, q.environment,
                                           workspace_mapping)
    /\ UNCHANGED <<tvars, rvars, pub, dvars, hvars, raced, located, avars, pvars>>

\* dataset_location = get_dataset_location_for_artifact(...) for the report
\* whose workspace was resolved (deploy.py:143-145)
Resolver_Locate ==
    /\ query # NoQuery /\ query.item_type = "Report" /\ located = NotLocated
    /\ resolved # WorkspaceNotMapped
    /\ located' = GetDatasetLocationForArtifact(query.artifact_name, query.environment,
                                                workspace_mapping)
    /\ UNCHANGED <<tvars, rvars, pub, dvars, hvars, raced, query, resolved, avars, pvars>>

(***************************************************************************)
(* Packaging of a folder into definition parts.  A file name or a path is  *)
(* kept as a sequence of tokens in which a separator character is a token  *)
(* of its own, so that relpath and replace("\\", "/") can be computed.     *)
(* A file content is either opaque bytes or a JSON document together with  *)
(* the indentation it is written with.                                     *)
(***************************************************************************)
MaxFiles == 2
MaxDepth == 1

\* the directories under the folder, as their chain of names
Dirs == UNION {[1..n -> {"definition"}] : n \in 0..MaxDepth}
\* file names; a backslash is an ordinary character of a POSIX file name
FileNames == {<<"definition.pbir">>, <<"report.json">>, <<"definition", "\\", "report.json">>}

ByPath(path) == [byPath |-> [path |-> path]]
ByConnection(connection_string) == [byConnection |-> [connectionString |-> connection_string]]
Pbir(reference) == [version |-> "4.0", datasetReference |-> reference]
\* json.dumps(doc, indent=k).encode("utf-8") and json.loads(content.decode("utf-8"))
JsonDumps(doc, k) == [json |-> doc, indent |-> k]
JsonLoads(content) == content.json
\* opaque bytes, and a definition.pbir that names its model by path
FileContents ==
    {[bytes |-> "x"], [bytes |-> "y"],
     JsonDumps(Pbir(ByPath(<< <<"..">>, <<"Sales", ".SemanticModel">> >>)), 4)}

\* the folders the packaging is given: at most MaxFiles regular files, no
\* two at one place, and no backslash in a file name on Windows
Trees(pf) ==
    LET names == IF pf = "nt"
                 THEN {n \in FileNames : \A i \in 1..Len(n) : n[i] # "\\"}
                 ELSE FileNames
    IN UNION {{{[dir |-> l[1], name |-> l[2], content |-> c[l]] : l \in L} :
                  c \in [L -> FileContents]} :
                     L \in {K \in SUBSET (Dirs \X names) : Cardinality(K) <= MaxFiles}}

\* os.walk(folder), top down: the files of a directory come before those of
\* the directories below it, in the order the file system lists them
WalkOrders(files) ==
    {order \in [1..Cardinality(files) -> files] :
        /\ \A i, j \in DOMAIN order : i # j => order[i] # order[j]
        /\ \A i, j \in DOMAIN order : i < j => Len(order[i].dir) <= Len(order[j].dir)}

RECURSIVE JoinDirs(_, _)
JoinDirs(dir, sep) == IF dir = <<>> THEN <<>> ELSE <<Head(dir), sep>> \o JoinDirs(Tail(dir), sep)
\* os.path.relpath(full_path, folder), with the separator of the platform
RelPath(file, pf) == JoinDirs(file.dir, IF pf = "nt" THEN "\\" ELSE "/") \o file.name
\* str.replace("\\", "/")
ReplaceBackslash(path) == [i \in DOMAIN path |-> IF path[i] = "\\" THEN "/" ELSE path[i]]

\* base64.b64encode(content).decode("ascii")
B64Encode(content) == [b64 |-> content]

\* utils.py:150-162: the part of one file
Part(file, pf) ==
    [path |-> ReplaceBackslash(RelPath(file, pf)),
     payload |-> B64Encode(file.content),
     payloadType |-> "InlineBase64"]

\* build_definition_parts_from_folder, before the emptiness check
BuildDefinitionParts(order, pf) == [i \in DOMAIN order |-> Part(order[i], pf)]

\* f"semanticModelId={dataset_id}"
ConnectionString(dataset_id) == <<"semanticModelId=", dataset_id>>

RewriteDatasetReference_KeepsByPath(doc, dataset_id) ==
    [doc EXCEPT !.datasetReference = ByConnection(ConnectionString(dataset_id)) @@ @]

\* utils.py:441-447: pbir_modified["datasetReference"] = {"byConnection": ...}
RewriteDatasetReference(doc, dataset_id) ==
    [k \in DOMAIN doc \cup {"datasetReference"} |->
        IF k = "datasetReference" THEN ByConnection(ConnectionString(dataset_id)) ELSE doc[k]]

\* utils.py:432-456: the part of one file in the report workaround
WorkaroundPart(file, pf, dataset_id) ==
    LET rel_path == ReplaceBackslash(RelPath(file, pf))
        content == IF rel_path = <<"definition.pbir">>
                   THEN JsonDumps(RewriteDatasetReference(JsonLoads(file.content), dataset_id), 2)
                   ELSE file.content
    IN [path |-> rel_path, payload |-> B64Encode(content), payloadType |-> "InlineBase64"]

\* utils.py:402-411: definition.pbir at the root of the folder, and the
\* byPath path it holds, <<>> when it holds none or cannot be read
RootPbir(files) == {f \in files : f.dir = <<>> /\ f.name = <<"definition.pbir">>}
ByPathOf(files) ==
    IF \E f \in RootPbir(files) :
          /\ "json" \in DOMAIN f.content
          /\ "datasetReference" \in DOMAIN JsonLoads(f.content)
          /\ "byPath" \in DOMAIN JsonLoads(f.content).datasetReference
    THEN LET f == CHOOSE g \in RootPbir(files) : TRUE
         IN JsonLoads(f.content).datasetReference.byPath.path
    ELSE <<>>

NoCall == [fn |-> "none", dataset_name |-> "", dataset_id |-> 0]

\* build_definition_parts_from_folder(folder)
Pack_Build(order) ==
    /\ pack_call = NoCall
    /\ order \in WalkOrders(tree)
    /\ pack_call' = [NoCall EXCEPT !.fn = "build_definition_parts_from_folder"]
    /\ IF BuildDefinitionParts(order, platform) = <<>>
       THEN pack_error' = "ValueError" /\ UNCHANGED parts
       ELSE parts' = BuildDefinitionParts(order, platform) /\ UNCHANGED pack_error
    /\ UNCHANGED <<platform, tree>>
    /\ UNCHANGED <<tvars, rvars, pub, dvars, hvars, raced, mvars, avars>>

\* utils.py:427-458: the packaging inside deploy_report_via_fabric_workaround,
\* reached with the id of the dataset that definition.pbir names by path
Pack_Workaround(order, dataset_id) ==
    /\ pack_call = NoCall
    /\ ByPathOf(tree) # <<>>
    /\ order \in WalkOrders(tree)
    /\ pack_call' = [fn |-> "deploy_report_via_fabric_workaround",
                     dataset_name |-> DatasetNameOfPath(ByPathOf(tree)),
                     dataset_id |-> dataset_id]
    /\ parts' = [i \in DOMAIN order |-> WorkaroundPart(order[i], platform, dataset_id)]
    /\ UNCHANGED <<platform, tree, pack_error>>
    /\ UNCHANGED <<tvars, rvars, pub, dvars, hvars, raced, mvars, avars>>

(***************************************************************************)
(* The remote service.  It is the only owner of items; an accepted         *)
(* asynchronous create (202) becomes an item when its operation succeeds.  *)
(* The service is not assumed to refuse a create whose display name is     *)
(* taken or pending: uniqueness of names is not enforced by this system.   *)
(***************************************************************************)
MaxIds == 4

Key(name, type, ws) == [displayName |-> name, type |-> type, ws |-> ws]
KeyOf(x) == Key(x.displayName, x.type, x.ws)
Item(id, key) == [id |-> id, displayName |-> key.displayName, type |-> key.type, ws |-> key.ws]
Op(id, key, st) ==
    [id |-> id, displayName |-> key.displayName, type |-> key.type, ws |-> key.ws, status |-> st]

\* GET /workspaces/{id}/items?type={item_type}
ListItemsByType(workspace_id, item_type) ==
    {it \in items : it.ws = workspace_id /\ it.type = item_type}

ItemsOfKey(key) == {it \in items : KeyOf(it) = key}
PendingOfKey(key) == {o \in ops : KeyOf(o) = key /\ o.status = "running"}

\* the service creates the item at once (201)
ServiceCreates(key) ==
    /\ items' = items \cup {Item(next_id, key)}
    /\ next_id' = next_id + 1
    /\ UNCHANGED <<ops, bound>>

\* the service accepts the create and runs it as an operation (202)
ServiceAccepts(key) ==
    /\ ops' = ops \cup {Op(next_id, key, "running")}
    /\ next_id' = next_id + 1
    /\ UNCHANGED <<items, bound>>

\* the operation the publisher is tracking, if any
Awaited(o) == pub.pc \in {"wait_create", "rwait_create"} /\ pub.op = o.id

(***************************************************************************)
(* The item publisher.  pub is the frame of one invocation:                *)
(*   pc      where the invocation stands; "returned" / "raised" at its end *)
(*   item_id None is 0                                                     *)
(*   creates, updates, rebinds   requests issued by this invocation        *)
(*   target  the item id the update request was issued against             *)
(*   answer  the answer to its create or update request                    *)
(*   tracked how the operation it tracked ended, "none" without one        *)
(*   rebound the answer to its rebind request                              *)
(***************************************************************************)
Idle ==
    [pc |-> "idle", item_type |-> "none", ws |-> "none", folder |-> <<>>,
     display_name |-> "", item_id |-> 0, op |-> 0, dataset_id |-> 0,
     creates |-> 0, updates |-> 0, rebinds |-> 0, target |-> 0, err |-> "none",
     answer |-> "none", tracked |-> "none", rebound |-> "none"]

\* create_or_update_item_from_folder(workspace_id, folder, item_type, token):
\* a Report is handed to deploy_report_via_fabric_workaround
Invoke(workspace_id, folder, item_type) ==
    [Idle EXCEPT !.pc = IF item_type = "Report" THEN "dataset" ELSE "list",
                 !.item_type = item_type, !.ws = workspace_id, !.folder = folder,
                 !.display_name = IF item_type = "Report" THEN ReportName(folder)
                                  ELSE DisplayName(folder)]

Raise(e) == [pub EXCEPT !.pc = "raised", !.err = e]
PubKey == Key(pub.display_name, pub.item_type, pub.ws)

FindItemId_NeverFinds(listed, display_name) == {0}

FindItemId_IgnoresCase(listed, display_name) ==
    LET fold(s) == IF s = "Sales" THEN "sales" ELSE s
        matches == {it \in listed : fold(it.displayName) = fold(display_name)}
    IN IF matches = {} THEN {0} ELSE {it.id : it \in matches}

\* for it in existing_items: if it.get("displayName") == display_name: first
\* match wins.  The order of the listing is the service's, so with several
\* matches any of them may come first.
FindItemId(listed, display_name) ==
    LET matches == {it \in listed : it.displayName = display_name}
    IN IF matches = {} THEN {0} ELSE {it.id : it \in matches}

\* how the operation behind an operation URL ends for the tracker that polls
\* it: a success status read, a failure status read, or the time running out
TrackerEnds == {"succeeded", "failed", "cancelled", "timeout"}

\* the ends the tracker can see of an operation in the given state
EndPossible(end, op_status) ==
    CASE end = "succeeded" -> op_status = "succeeded"
      [] end \in {"failed", "cancelled"} -> op_status = "failed"
      [] OTHER -> TRUE

TrackerResult_ReturnsOnFailure(end) ==
    IF end \in {"succeeded", "failed", "cancelled"} THEN "returned" ELSE "OperationTimeout"

\* wait_for_long_running_operation as its callers see it: it returns on a
\* success status and raises in every other case; no caller catches
TrackerResult(end) ==
    CASE end = "succeeded" -> "returned"
      [] end \in {"failed", "cancelled"} -> "OperationFailed"
      [] OTHER -> "OperationTimeout"

OpStatus(id) == IF \E o \in ops : o.id = id THEN (CHOOSE o \in ops : o.id = id).status ELSE "gone"
\* the operation is no longer tracked: forget it once it has ended
Untrack(id) == {o \in ops : o.id # id \/ o.status = "running"}

\* the lookup saw no item while a create of the same key was still pending
NoteRace(id) ==
    raced' = IF id = 0 /\ PendingOfKey(PubKey) # {} THEN raced \cup {PubKey} ELSE raced

\* "http_error": a status that is not 2xx, fabric_request raises (utils.py:79-83)
ListOutcomes == {"ok", "http_error"}
CreateOutcomes ==
    {"http_error", "201", "201_bad_body", "202_location", "202_no_location", "2xx_other"}
\* the answers by which the service has taken the create and used an identifier
ConsumingOutcomes == {"201", "201_bad_body", "202_location", "202_no_location"}
UpdateOutcomes == {"http_error", "200", "202_location", "202_no_location", "2xx_other"}

\* where an answer sends the publisher: "return", "track", "sleep", "rebind",
\* or the error it raises
CreateBranch_AcceptsAny2xx(outcome) ==
    CASE outcome = "http_error" -> "ApiError"
      [] outcome = "201_bad_body" -> "ParseError"
      [] outcome = "202_location" -> "track"
      [] outcome = "202_no_location" -> "NoLocation"
      [] OTHER -> "return"

\* utils.py:585-637: if 201 / elif 202 (Location or not) / else
CreateBranch(outcome) ==
    CASE outcome = "http_error" -> "ApiError"
      [] outcome = "201" -> "return"
      [] outcome = "201_bad_body" -> "ParseError"
      [] outcome = "202_location" -> "track"
      [] outcome = "202_no_location" -> "NoLocation"
      [] OTHER -> "UnexpectedStatus"

ReportCreateBranch_DoesNotWait(outcome) ==
    CASE outcome = "http_error" -> "ApiError"
      [] outcome \in {"201", "202_location"} -> "rebind"
      [] outcome = "201_bad_body" -> "ParseError"
      [] OTHER -> "ItemNotFound"

\* utils.py:478-496 and 511-512: if 202 (and Location) / elif 201; in every
\* other case item_id stays None and line 512 raises
ReportCreateBranch(outcome) ==
    CASE outcome = "http_error" -> "ApiError"
      [] outcome = "201" -> "rebind"
      [] outcome = "201_bad_body" -> "ParseError"
      [] outcome = "202_location" -> "track"
      [] OTHER -> "ItemNotFound"

\* utils.py:653-674: if 200 / elif 202 (Location or not) / else
UpdateBranch(outcome) ==
    CASE outcome = "http_error" -> "ApiError"
      [] outcome = "200" -> "return"
      [] outcome = "202_location" -> "track"
      [] outcome = "202_no_location" -> "sleep"
      [] OTHER -> "UpdateFailed"

\* utils.py:500-509: only a 202 with Location is looked at
ReportUpdateBranch(outcome) ==
    CASE outcome = "http_error" -> "ApiError"
      [] outcome = "202_location" -> "track"
      [] OTHER -> "rebind"

\* utils.py:548-564: pack the folder, list the items, look the name up
Publish_List(outcome) ==
    /\ pub.pc = "list"
    /\ UNCHANGED rvars
    /\ IF FolderFiles(pub.folder) = {}
       THEN pub' = Raise("EmptyArtifact") /\ UNCHANGED raced
       ELSE IF outcome = "http_error"
       THEN pub' = Raise("ApiError") /\ UNCHANGED raced
       ELSE \E id \in FindItemId(ListItemsByType(pub.ws, pub.item_type), pub.display_name) :
               /\ pub' = [pub EXCEPT !.item_id = id,
                                     !.pc = IF id = 0 THEN "create" ELSE "update"]
               /\ NoteRace(id)
    /\ UNCHANGED <<tvars, dvars, hvars, mvars, avars, pvars>>

\* utils.py:569-637: the create request and the branch on its status code
Publish_Create(outcome) ==
    /\ pub.pc = "create"
    /\ UNCHANGED raced
    /\ outcome \in ConsumingOutcomes => next_id <= MaxIds
    /\ CASE outcome \in {"201", "201_bad_body"} -> ServiceCreates(PubKey)
         [] outcome \in {"202_location", "202_no_location"} -> ServiceAccepts(PubKey)
         [] OTHER -> UNCHANGED rvars
    /\ LET sent == [pub EXCEPT !.creates = @ + 1, !.answer = outcome]
           branch == CreateBranch(outcome)
       IN pub' = CASE branch = "return" -> [sent EXCEPT !.pc = "returned", !.item_id = next_id]
                   [] branch = "track" -> [sent EXCEPT !.pc = "wait_create", !.op = next_id]
                   [] OTHER -> [sent EXCEPT !.pc = "raised", !.err = branch]
    /\ UNCHANGED <<tvars, dvars, hvars, mvars, avars, pvars>>

\* utils.py:608-610: sleep Retry-After, then track the operation
Publish_WaitCreate(end) ==
    /\ pub.pc = "wait_create"
    /\ EndPossible(end, OpStatus(pub.op))
    /\ ops' = Untrack(pub.op)
    /\ UNCHANGED <<items, next_id, bound, raced>>
    /\ LET result == TrackerResult(end)
           waited == [pub EXCEPT !.op = 0, !.tracked = end]
       IN pub' = IF result = "returned" THEN [waited EXCEPT !.pc = "relist"]
                 ELSE [waited EXCEPT !.pc = "raised", !.err = result]
    /\ UNCHANGED <<tvars, dvars, hvars, mvars, avars, pvars>>

\* the listing a re-list gets: with "not_listed_yet" the service does not
\* show the newest item of the publisher's name yet
Relisted(outcome) ==
    LET all == ListItemsByType(pub.ws, pub.item_type)
        own == {it \in all : it.displayName = pub.display_name}
    IN IF outcome = "not_listed_yet"
       THEN {it \in all : it \in own => \E jt \in own : jt.id > it.id}
       ELSE all

RelistBranch_ReturnsAnyway(id) == "return"

\* utils.py:618-624 and 511-512: no item of that name listed is an error
RelistBranch(id) == IF id = 0 THEN "ItemNotFound" ELSE "return"

\* utils.py:612-624: list again and recover the id of the new item
Publish_Relist(outcome) ==
    /\ pub.pc = "relist"
    /\ UNCHANGED <<rvars, raced>>
    /\ IF outcome = "http_error"
       THEN pub' = Raise("ApiError")
       ELSE \E id \in FindItemId(Relisted(outcome), pub.display_name) :
               pub' = IF RelistBranch(id) = "return"
                      THEN [pub EXCEPT !.pc = "returned", !.item_id = id]
                      ELSE Raise(RelistBranch(id))
    /\ UNCHANGED <<tvars, dvars, hvars, mvars, avars, pvars>>

\* utils.py:642-674: the update-definition request and the branch on its status
Publish_Update(outcome) ==
    /\ pub.pc = "update"
    /\ UNCHANGED <<rvars, raced>>
    /\ LET sent == [pub EXCEPT !.updates = @ + 1, !.target = pub.item_id,
                               !.answer = outcome]
           branch == UpdateBranch(outcome)
       IN pub' = CASE branch \in {"return", "sleep"} -> [sent EXCEPT !.pc = "returned"]
                   [] branch = "track" -> [sent EXCEPT !.pc = "wait_update"]
                   [] OTHER -> [sent EXCEPT !.pc = "raised", !.err = branch]
    /\ UNCHANGED <<tvars, dvars, hvars, mvars, avars, pvars>>

\* utils.py:661-669: track the update operation
Publish_WaitUpdate(end) ==
    /\ pub.pc = "wait_update"
    /\ UNCHANGED <<rvars, raced>>
    /\ LET result == TrackerResult(end)
           waited == [pub EXCEPT !.tracked = end]
       IN pub' = IF result = "returned" THEN [waited EXCEPT !.pc = "returned"]
                 ELSE [waited EXCEPT !.pc = "raised", !.err = result]
    /\ UNCHANGED <<tvars, dvars, hvars, mvars, avars, pvars>>

(***************************************************************************)
(* deploy_report_via_fabric_workaround (utils.py:387-520).                 *)
(***************************************************************************)
RebindOutcomes == {"ok", "not_ok", "exception"}

\* rebind_report_to_dataset (utils.py:377-384) as line 518 sees it: a refused
\* rebind is printed only; an exception of requests.post itself is not
\* caught
RebindBranch(outcome) ==
    IF outcome = "exception" THEN "TransportError" ELSE "return"

\* utils.py:399-425: read definition.pbir, look the dataset up by name in the
\* report's own workspace; any error of the lookup is swallowed (line 419)
Workaround_FindDataset(outcome) ==
    /\ pub.pc = "dataset"
    /\ UNCHANGED <<rvars, raced>>
    /\ LET path == IF "definition.pbir" \in FolderFiles(pub.folder)
                   THEN PbirByPath(pub.folder) ELSE <<>>
           dataset_name == DatasetNameOfPath(path)
           found == IF path = <<>> \/ outcome = "http_error" THEN {0}
                    ELSE FindItemId(ListItemsByType(pub.ws, "SemanticModel"), dataset_name)
       IN \E id \in found :
             pub' = IF id = 0 THEN Raise("DatasetNotFound")
                    ELSE [pub EXCEPT !.pc = "rlist", !.dataset_id = id]
    /\ UNCHANGED <<tvars, dvars, hvars, mvars, avars, pvars>>

\* utils.py:460-470: list the reports, look the name up
Workaround_List(outcome) ==
    /\ pub.pc = "rlist"
    /\ UNCHANGED rvars
    /\ IF outcome = "http_error"
       THEN pub' = Raise("ApiError") /\ UNCHANGED raced
       ELSE \E id \in FindItemId(ListItemsByType(pub.ws, "Report"), pub.display_name) :
               /\ pub' = [pub EXCEPT !.item_id = id,
                                     !.pc = IF id = 0 THEN "rcreate" ELSE "rupdate"]
               /\ NoteRace(id)
    /\ UNCHANGED <<tvars, dvars, hvars, mvars, avars, pvars>>

\* utils.py:470-496: the create request; a 202 without Location and any other
\* 2xx leave item_id None, which line 511 turns into an error
Workaround_Create(outcome) ==
    /\ pub.pc = "rcreate"
    /\ UNCHANGED raced
    /\ outcome \in ConsumingOutcomes => next_id <= MaxIds
    /\ CASE outcome \in {"201", "201_bad_body"} -> ServiceCreates(PubKey)
         [] outcome \in {"202_location", "202_no_location"} -> ServiceAccepts(PubKey)
         [] OTHER -> UNCHANGED rvars
    /\ LET sent == [pub EXCEPT !.creates = @ + 1, !.answer = outcome]
           branch == ReportCreateBranch(outcome)
       IN pub' = CASE branch = "rebind" -> [sent EXCEPT !.pc = "rebind", !.item_id = next_id]
                   [] branch = "track" -> [sent EXCEPT !.pc = "rwait_create", !.op = next_id]
                   [] OTHER -> [sent EXCEPT !.pc = "raised", !.err = branch]
    /\ UNCHANGED <<tvars, dvars, hvars, mvars, avars, pvars>>

\* utils.py:483-485
Workaround_WaitCreate(end) ==
    /\ pub.pc = "rwait_create"
    /\ EndPossible(end, OpStatus(pub.op))
    /\ ops' = Untrack(pub.op)
    /\ UNCHANGED <<items, next_id, bound, raced>>
    /\ LET result == TrackerResult(end)
           waited == [pub EXCEPT !.op = 0, !.tracked = end]
       IN pub' = IF result = "returned" THEN [waited EXCEPT !.pc = "rrelist"]
                 ELSE [waited EXCEPT !.pc = "raised", !.err = result]
    /\ UNCHANGED <<tvars, dvars, hvars, mvars, avars, pvars>>

\* utils.py:487-493 and 511-512
Workaround_Relist(outcome) ==
    /\ pub.pc = "rrelist"
    /\ UNCHANGED <<rvars, raced>>
    /\ IF outcome = "http_error"
       THEN pub' = Raise("ApiError")
       ELSE \E id \in FindItemId(Relisted(outcome), pub.display_name) :
               pub' = IF RelistBranch(id) = "return"
                      THEN [pub EXCEPT !.pc = "rebind", !.item_id = id]
                      ELSE Raise(RelistBranch(id))
    /\ UNCHANGED <<tvars, dvars, hvars, mvars, avars, pvars>>

\* utils.py:497-509: the update request; every 2xx answer but a tracked 202
\* goes on to the rebind
Workaround_Update(outcome) ==
    /\ pub.pc = "rupdate"
    /\ UNCHANGED <<rvars, raced>>
    /\ LET sent == [pub EXCEPT !.updates = @ + 1, !.target = pub.item_id,
                               !.answer = outcome]
           branch == ReportUpdateBranch(outcome)
       IN pub' = CASE branch = "rebind" -> [sent EXCEPT !.pc = "rebind"]
                   [] branch = "track" -> [sent EXCEPT !.pc = "rwait_update"]
                   [] OTHER -> [sent EXCEPT !.pc = "raised", !.err = branch]
    /\ UNCHANGED <<tvars, dvars, hvars, mvars, avars, pvars>>

\* utils.py:506-509
Workaround_WaitUpdate(end) ==
    /\ pub.pc = "rwait_update"
    /\ UNCHANGED <<rvars, raced>>
    /\ LET result == TrackerResult(end)
           waited == [pub EXCEPT !.tracked = end]
       IN pub' = IF result = "returned" THEN [waited EXCEPT !.pc = "rebind"]
                 ELSE [waited EXCEPT !.pc = "raised", !.err = result]
    /\ UNCHANGED <<tvars, dvars, hvars, mvars, avars, pvars>>

\* utils.py:516-520 with rebind_report_to_dataset (354-384)
Workaround_Rebind(outcome) ==
    /\ pub.pc = "rebind"
    /\ UNCHANGED <<items, ops, next_id, raced>>
    /\ bound' = IF outcome = "ok"
                THEN {b \in bound : b[1] # pub.item_id} \cup {<<pub.item_id, pub.dataset_id>>}
                ELSE bound
    /\ LET sent == [pub EXCEPT !.rebinds = @ + 1, !.rebound = outcome]
           branch == RebindBranch(outcome)
       IN pub' = IF branch = "return" THEN [sent EXCEPT !.pc = "returned"]
                 ELSE [sent EXCEPT !.pc = "raised", !.err = branch]
    /\ UNCHANGED <<tvars, dvars, hvars, mvars, avars, pvars>>

(***************************************************************************)
(* Steps of the remote service: a pending create ends.                     *)
(***************************************************************************)
OpSucceeds(o) ==
    /\ o \in ops /\ o.status = "running"
    /\ items' = items \cup {Item(o.id, KeyOf(o))}
    /\ ops' = IF Awaited(o) THEN (ops \ {o}) \cup {Op(o.id, KeyOf(o), "succeeded")}
              ELSE ops \ {o}
    /\ UNCHANGED <<next_id, bound, pub, raced>>
    /\ UNCHANGED <<tvars, dvars, hvars, mvars, avars, pvars>>

OpFails(o) ==
    /\ o \in ops /\ o.status = "running"
    /\ ops' = IF Awaited(o) THEN (ops \ {o}) \cup {Op(o.id, KeyOf(o), "failed")}
              ELSE ops \ {o}
    /\ UNCHANGED <<items, next_id, bound, pub, raced>>
    /\ UNCHANGED <<tvars, dvars, hvars, mvars, avars, pvars>>

(***************************************************************************)
(* The deployment drivers: main of deploy.py (mapping-driven, one          *)
(* try/except per artifact) and main of deploy-dev.py (one workspace, no   *)
(* try/except).                                                            *)
(***************************************************************************)
MaxRuns == 2

NoErrors == [f \in Folders |-> "none"]
Failed == {f \in Folders : error_of[f] # "none"}
Ended == pub.pc \in {"returned", "raised"}

NextFolders_RetriesFailed(left) ==
    left \cup {f \in Failed : (f \in SemanticFolders) <=> (dpc = "semantic")}

\* the folder the for loop takes next: glob.glob gives no order, sorted() does
NextFolders(left) ==
    IF script = "deploy-dev" THEN {f \in left : \A g \in left : Rank(f) <= Rank(g)} ELSE left

SemanticLoopDone_Early == TRUE

\* the for loop over semantic_folders has run out
SemanticLoopDone == sm_left = {}

\* the three variables get_access_token_spn reads (utils.py:39-41)
CredentialNames == {"FABRIC_TENANT_ID", "FABRIC_CLIENT_ID", "FABRIC_CLIENT_SECRET"}
\* os.getenv gives None for a variable that is not set
Environs == [CredentialNames -> {NoneVal, "", "set"}]

GetEnvOrFail_OnlyIfUnset(value) == value # NoneVal

\* _get_env_or_fail: `if not value` raises FabricAuthError
GetEnvOrFail(value) == Truthy(value)

\* what the token endpoint and, after it, the loading of the mapping file or
\* of the workspace can answer
StartOutcomes == {"ok", "auth_error", "config_error"}

\* get_access_token_spn as main sees it: the error it raises, or "token"
GetAccessTokenSpn(env, outcome) ==
    IF \E n \in CredentialNames : ~GetEnvOrFail(env[n]) THEN "FabricAuthError_missing"
    ELSE IF outcome = "auth_error" THEN "FabricAuthError_refused"
    ELSE "token"

\* deploy.py:224-235, deploy-dev.py:35-62: token, mapping or workspace, folders
Driver_Start(outcome) ==
    /\ dpc = "start"
    /\ LET token == GetAccessTokenSpn(environ, outcome)
       IN /\ token_requests' = IF token = "FabricAuthError_missing" THEN token_requests
                               ELSE token_requests + 1
          /\ IF token = "token" /\ outcome = "ok"
             THEN /\ dpc' = "semantic"
                  /\ sm_left' = Found(script, SemanticFolders)
                  /\ rp_left' = Found(script, ReportFolders)
                  /\ UNCHANGED <<exit_status, start_error>>
             ELSE /\ dpc' = "fatal"
                  /\ exit_status' = "1"
                  /\ start_error' = IF token = "token" THEN "ConfigError" ELSE token
                  /\ UNCHANGED <<sm_left, rp_left>>
    /\ UNCHANGED <<script, workspace_mapping, run, attempted, finished, error_of,
                   succeeded, rvars, pub, raced, environ>>
    /\ UNCHANGED <<tvars, hvars, mvars, pvars>>

\* the body of the loop caught an exception (deploy.py:256-259, 289-291)
Caught(folder, e) ==
    /\ error_of' = [error_of EXCEPT ![folder] = e]
    /\ finished' = finished \cup {folder}
    /\ UNCHANGED <<pub, dpc, exit_status, succeeded>>

\* deploy.py:239-255, deploy-dev.py:67-73: the loop takes a semantic model
Driver_NextSemantic ==
    /\ dpc = "semantic" /\ pub.pc = "idle"
    /\ \E folder \in NextFolders(sm_left) :
          /\ sm_left' = sm_left \ {folder}
          /\ attempted' = attempted \cup {folder}
          /\ IF script = "deploy"
             THEN LET workspace_id ==
                         GetWorkspaceForArtifact(Stem(folder), "SemanticModel", DeployEnv,
                                                 workspace_mapping)
                  IN IF workspace_id = WorkspaceNotMapped
                     THEN Caught(folder, "WorkspaceNotMapped")
                     ELSE /\ pub' = Invoke(workspace_id, folder, "SemanticModel")
                          /\ UNCHANGED <<dpc, exit_status, finished, error_of, succeeded>>
             ELSE /\ pub' = Invoke(DevWorkspace, folder, "SemanticModel")
                  /\ UNCHANGED <<dpc, exit_status, finished, error_of, succeeded>>
    /\ UNCHANGED <<script, workspace_mapping, run, rp_left, rvars, raced>>
    /\ UNCHANGED <<tvars, hvars, mvars, avars, pvars>>

\* the publisher has returned or raised: deploy.py catches, deploy-dev.py not
Driver_ArtifactEnds ==
    /\ dpc \in {"semantic", "reports"} /\ Ended
    /\ pub' = Idle
    /\ finished' = finished \cup {pub.folder}
    /\ IF pub.pc = "returned"
       THEN /\ succeeded' = succeeded \cup {pub.folder}
            /\ UNCHANGED <<error_of, dpc, exit_status>>
       ELSE /\ error_of' = [error_of EXCEPT ![pub.folder] = pub.err]
            /\ UNCHANGED succeeded
            /\ IF script = "deploy"
               THEN UNCHANGED <<dpc, exit_status>>
               ELSE dpc' = "crashed" /\ exit_status' = "1"
    /\ UNCHANGED <<script, workspace_mapping, run, sm_left, rp_left, attempted, rvars, raced>>
    /\ UNCHANGED <<tvars, hvars, mvars, avars, pvars>>

\* deploy.py:263-267, deploy-dev.py:75-93: on to the reports
Driver_ReportsBegin ==
    /\ dpc = "semantic" /\ pub.pc = "idle"
    /\ SemanticLoopDone
    /\ dpc' = "reports"
    /\ UNCHANGED <<script, workspace_mapping, run, sm_left, rp_left, attempted, finished,
                   error_of, succeeded, exit_status, rvars, pub, raced>>
    /\ UNCHANGED <<tvars, hvars, mvars, avars, pvars>>

\* find_dataset_cross_workspace: list the semantic models of the workspace and
\* match the display name
FindDatasetCrossWorkspace(dataset_name, workspace_id) ==
    FindItemId(ListItemsByType(workspace_id, "SemanticModel"), dataset_name)

\* deploy.py:170-175 calls deploy_report_via_fabric_workaround with the keyword
\* dataset_id, which utils.py:387-391 does not take: the call raises TypeError
WorkaroundCall == "TypeError"

\* deploy.py:268-291 with deploy_report_with_cross_workspace_dataset (129-199)
Driver_NextReportMapped(outcome) ==
    /\ dpc = "reports" /\ pub.pc = "idle" /\ script = "deploy"
    /\ \E folder \in NextFolders(rp_left) :
          /\ rp_left' = rp_left \ {folder}
          /\ attempted' = attempted \cup {folder}
          /\ LET artifact_name == Stem(folder)
                 report_workspace_id ==
                     GetWorkspaceForArtifact(artifact_name, "Report", DeployEnv, workspace_mapping)
                 dataset_location ==
                     GetDatasetLocationForArtifact(artifact_name, DeployEnv, workspace_mapping)
             IN IF report_workspace_id = WorkspaceNotMapped
                THEN Caught(folder, "WorkspaceNotMapped")
                ELSE IF dataset_location = NoLocation
                THEN Caught(folder, WorkaroundCall)
                ELSE IF outcome = "http_error"
                THEN Caught(folder, "ApiError")
                ELSE \E dataset_id \in FindDatasetCrossWorkspace(dataset_location.dataset_name,
                                                                  dataset_location.workspace_id) :
                        IF dataset_id = 0
                        THEN Caught(folder, "DatasetNotFound")
                        ELSE Caught(folder, WorkaroundCall)
    /\ UNCHANGED <<script, workspace_mapping, run, sm_left, rvars, raced>>
    /\ UNCHANGED <<tvars, hvars, mvars, avars, pvars>>

\* deploy-dev.py:94-100
Driver_NextReportDev ==
    /\ dpc = "reports" /\ pub.pc = "idle" /\ script = "deploy-dev"
    /\ \E folder \in NextFolders(rp_left) :
          /\ rp_left' = rp_left \ {folder}
          /\ attempted' = attempted \cup {folder}
          /\ pub' = Invoke(DevWorkspace, folder, "Report")
    /\ UNCHANGED <<script, workspace_mapping, run, sm_left, finished, error_of, succeeded,
                   dpc, exit_status, rvars, raced>>
    /\ UNCHANGED <<tvars, hvars, mvars, avars, pvars>>

\* deploy.py:295-297, deploy-dev.py:102: main returns, the process exits 0
Driver_Finish ==
    /\ dpc = "reports" /\ pub.pc = "idle" /\ rp_left = {}
    /\ dpc' = "done"
    /\ exit_status' = "0"
    /\ UNCHANGED <<script, workspace_mapping, run, sm_left, rp_left, attempted, finished,
                   error_of, succeeded, rvars, pub, raced>>
    /\ UNCHANGED <<tvars, hvars, mvars, avars, pvars>>

\* the process is killed; what the service has accepted stays accepted
Kill ==
    /\ dpc \in {"start", "semantic", "reports"}
    /\ dpc' = "killed"
    /\ exit_status' = "1"
    /\ pub' = Idle
    /\ ops' = {o \in ops : o.status = "running"}
    /\ UNCHANGED <<script, workspace_mapping, run, sm_left, rp_left, attempted, finished,
                   error_of, succeeded, items, next_id, bound, raced>>
    /\ UNCHANGED <<tvars, hvars, mvars, avars, pvars>>

\* the whole deployment is run again
Rerun ==
    /\ dpc = "killed" /\ run < MaxRuns
    /\ run' = run + 1
    /\ dpc' = "start"
    /\ sm_left' = {} /\ rp_left' = {}
    /\ attempted' = {} /\ finished' = {} /\ succeeded' = {}
    /\ error_of' = NoErrors
    /\ exit_status' = "running"
    /\ start_error' = "none"
    /\ UNCHANGED <<script, workspace_mapping, rvars, pub, raced, environ, token_requests>>
    /\ UNCHANGED <<tvars, hvars, mvars, pvars>>

(***************************************************************************)
(* Two invocations of the publisher in sequence, with the same arguments.  *)
(***************************************************************************)
NoFirst ==
    [folder |-> <<>>, ws |-> "none", absent |-> FALSE, ended |-> "none",
     creates |-> 0, updates |-> 0, item_id |-> 0]

ItemTypeOf(folder) ==
    IF folder[Len(folder)] = ".Report" THEN "Report" ELSE "SemanticModel"
\* the remote identity under which the publisher looks a folder up
ArtifactKey(folder, workspace_id) ==
    LET call == Invoke(workspace_id, folder, ItemTypeOf(folder))
    IN Key(call.display_name, call.item_type, call.ws)

Twice_First ==
    /\ calls = 0 /\ pub.pc = "idle"
    /\ \E folder \in Folders \cup EmptyFolders, workspace_id \in Workspaces :
          /\ pub' = Invoke(workspace_id, folder, ItemTypeOf(folder))
          /\ first' = [NoFirst EXCEPT
                         !.folder = folder, !.ws = workspace_id,
                         !.absent = (ItemsOfKey(ArtifactKey(folder, workspace_id)) = {})]
    /\ calls' = 1
    /\ UNCHANGED <<rvars, raced>>
    /\ UNCHANGED <<tvars, dvars, mvars, avars, pvars>>

Twice_Second ==
    /\ calls = 1 /\ Ended
    /\ first' = [first EXCEPT !.ended = pub.pc, !.creates = pub.creates,
                              !.updates = pub.updates, !.item_id = pub.item_id]
    /\ pub' = Invoke(first.ws, first.folder, ItemTypeOf(first.folder))
    /\ calls' = 2
    /\ UNCHANGED <<rvars, raced>>
    /\ UNCHANGED <<tvars, dvars, mvars, avars, pvars>>

(***************************************************************************)
(* Specifications.                                                         *)
(***************************************************************************)
DefaultMaxWait == 300
DefaultPollInterval == 5

TrackerIdle ==
    /\ max_wait_seconds = DefaultMaxWait
    /\ poll_interval = DefaultPollInterval
    /\ elapsed = 0 /\ attempt = 0 /\ tpc = "done" /\ tresult = "none"
    /\ treturn = NoDoc /\ error_info = NoDoc /\ served = <<>>

DriverOff ==
    /\ script = "none" /\ workspace_mapping = EmptyMapping /\ run = 1 /\ dpc = "off"
    /\ sm_left = {} /\ rp_left = {} /\ attempted = {} /\ finished = {} /\ succeeded = {}
    /\ error_of = NoErrors /\ exit_status = "running"

PublisherIdle == pub = Idle /\ raced = {}
TwiceOff == calls = 0 /\ first = NoFirst
ResolverOff == query = NoQuery /\ resolved = NoneVal /\ located = NotLocated
AuthOff == environ = [n \in CredentialNames |-> NoneVal] /\ token_requests = 0 /\ start_error = "none"
PackOff ==
    /\ platform = "posix" /\ tree = {} /\ parts = <<>> /\ pack_error = "none"
    /\ pack_call = NoCall
RemoteEmpty == items = {} /\ ops = {} /\ next_id = 1 /\ bound = {}

TInit ==
    /\ max_wait_seconds \in 0..MaxWait
    /\ poll_interval \in 1..MaxInterval
    /\ elapsed = 0
    /\ attempt = 0
    /\ tpc = "loop"
    /\ tresult = "none"
    /\ treturn = NoDoc
    /\ error_info = NoDoc
    /\ served = <<>>
    /\ DriverOff /\ PublisherIdle /\ TwiceOff /\ RemoteEmpty /\ ResolverOff
    /\ AuthOff /\ PackOff

TNext ==
    \/ \E resp \in Responses : TPoll(resp)
    \/ TTimeout

TrackerSpec == TInit /\ [][TNext]_vars

\* the tracker runs on its caller's thread and nothing suspends it: an
\* iteration that can be taken is taken
TrackerFairSpec == TrackerSpec /\ WF_vars(TNext)


\* a run of one of the two drivers against an empty service, killed and run
\* again up to MaxRuns times
Init ==
    /\ TrackerIdle /\ PublisherIdle /\ TwiceOff /\ RemoteEmpty /\ ResolverOff /\ PackOff
    /\ environ \in Environs /\ token_requests = 0 /\ start_error = "none"
    /\ script \in {"deploy", "deploy-dev"}
    /\ workspace_mapping \in (IF script = "deploy" THEN Mappings ELSE {EmptyMapping})
    /\ run = 1 /\ dpc = "start"
    /\ sm_left = {} /\ rp_left = {} /\ attempted = {} /\ finished = {} /\ succeeded = {}
    /\ error_of = NoErrors
    /\ exit_status = "running"

Next ==
    \/ \E o \in StartOutcomes : Driver_Start(o)
    \/ Driver_NextSemantic
    \/ Driver_ArtifactEnds
    \/ Driver_ReportsBegin
    \/ \E o \in ListOutcomes : Driver_NextReportMapped(o)
    \/ Driver_NextReportDev
    \/ Driver_Finish
    \/ Kill
    \/ Rerun
    \/ \E o \in ListOutcomes : Publish_List(o)
    \/ \E o \in CreateOutcomes : Publish_Create(o)
    \/ \E o \in TrackerEnds : Publish_WaitCreate(o)
    \/ \E o \in ListOutcomes : Publish_Relist(o)
    \/ \E o \in UpdateOutcomes : Publish_Update(o)
    \/ \E o \in TrackerEnds : Publish_WaitUpdate(o)
    \/ \E o \in ListOutcomes : Workaround_FindDataset(o)
    \/ \E o \in ListOutcomes : Workaround_List(o)
    \/ \E o \in CreateOutcomes : Workaround_Create(o)
    \/ \E o \in TrackerEnds : Workaround_WaitCreate(o)
    \/ \E o \in ListOutcomes : Workaround_Relist(o)
    \/ \E o \in UpdateOutcomes : Workaround_Update(o)
    \/ \E o \in TrackerEnds : Workaround_WaitUpdate(o)
    \/ \E o \in RebindOutcomes : Workaround_Rebind(o)
    \/ \E o \in ops : OpSucceeds(o)
    \/ \E o \in ops : OpFails(o)

Spec == Init /\ [][Next]_vars

\* one workspace resolution against one mapping file
ResolverInit ==
    /\ TrackerIdle /\ DriverOff /\ PublisherIdle /\ TwiceOff /\ RemoteEmpty /\ ResolverOff
    /\ AuthOff /\ PackOff

ResolverNext ==
    \/ \E mapping \in ResolverMappings : Resolver_Load(mapping)
    \/ \E q \in Queries : Resolver_Call(q)
    \/ Resolver_Locate

ResolverSpec == ResolverInit /\ [][ResolverNext]_vars

PackInit ==
    /\ TrackerIdle /\ DriverOff /\ PublisherIdle /\ TwiceOff /\ RemoteEmpty /\ ResolverOff
    /\ AuthOff
    /\ platform \in {"posix", "nt"} /\ tree \in Trees(platform)
    /\ parts = <<>> /\ pack_error = "none" /\ pack_call = NoCall

PackNext ==
    \/ \E order \in WalkOrders(tree) : Pack_Build(order)
    \/ \E order \in WalkOrders(tree), dataset_id \in 1..MaxIds : Pack_Workaround(order, dataset_id)

PackSpec == PackInit /\ [][PackNext]_vars

\* the publisher called twice for one artifact, against a service that may
\* already hold the backing semantic model and the report
\* and an older model whose name differs from it in case only, under an id
\* the service will not hand out again
TwiceItems ==
    {Item(1, Key("Sales", "SemanticModel", "W1")), Item(2, Key("SalesReport", "Report", "W1")),
     Item(MaxIds + 1, Key("sales", "SemanticModel", "W1"))}

TwiceInit ==
    /\ TrackerIdle /\ DriverOff /\ PublisherIdle /\ TwiceOff /\ ResolverOff
    /\ AuthOff /\ PackOff
    /\ items \in SUBSET TwiceItems
    /\ ops = {} /\ next_id = 3 /\ bound = {}

TwiceNext ==
    \/ Twice_First
    \/ Twice_Second
    \/ \E o \in ListOutcomes : Publish_List(o)
    \/ \E o \in CreateOutcomes : Publish_Create(o)
    \/ \E o \in TrackerEnds : Publish_WaitCreate(o)
    \/ \E o \in ListOutcomes \cup {"not_listed_yet"} : Publish_Relist(o)
    \/ \E o \in UpdateOutcomes : Publish_Update(o)
    \/ \E o \in TrackerEnds : Publish_WaitUpdate(o)
    \/ \E o \in ListOutcomes : Workaround_FindDataset(o)
    \/ \E o \in ListOutcomes : Workaround_List(o)
    \/ \E o \in CreateOutcomes : Workaround_Create(o)
    \/ \E o \in TrackerEnds : Workaround_WaitCreate(o)
    \/ \E o \in ListOutcomes \cup {"not_listed_yet"} : Workaround_Relist(o)
    \/ \E o \in UpdateOutcomes : Workaround_Update(o)
    \/ \E o \in TrackerEnds : Workaround_WaitUpdate(o)
    \/ \E o \in RebindOutcomes : Workaround_Rebind(o)
    \/ \E o \in ops : OpSucceeds(o)
    \/ \E o \in ops : OpFails(o)

TwiceSpec == TwiceInit /\ [][TwiceNext]_vars

(***************************************************************************)
(* Properties of the operation tracker (TrackerSpec).                      *)
(* The status documents are classified here by their literal status, not   *)
(* through Lower and Branch, so that the properties do not follow the      *)
(* model's own classification.                                             *)
(***************************************************************************)
IsStatusDoc(resp) == resp.kind = "object" /\ resp.statusKind \in {"string", "missing"}
ReportsSuccess(resp) ==
    resp.kind = "object" /\ resp.statusKind = "string"
    /\ resp.status \in {"Succeeded", "SUCCEEDED", "Completed"}
ReportsFailure(resp) ==
    resp.kind = "object" /\ resp.statusKind = "string"
    /\ resp.status \in {"Failed", "Cancelled", "CANCELLED"}
ReportsNonTerminal(resp) == IsStatusDoc(resp) /\ ~ReportsSuccess(resp) /\ ~ReportsFailure(resp)
ReportsUnrecognized(resp) ==
    ReportsNonTerminal(resp)
    /\ (resp.statusKind = "missing" \/ resp.status \in {"Undefined", "Canceled", ""})
LastServed == served[Len(served)]

\* C6: the tracker stops at the first terminal-success status: when the i-th
\* answer of the endpoint is succeeded or completed (in any letter case), it
\* is the last answer ever asked for, the tracker has polled exactly i times
\* and has returned that document.
C6_StopsAtFirstSuccess ==
    \A i \in 1..Len(served) :
        ReportsSuccess(served[i]) =>
            /\ i = Len(served)
            /\ attempt = i
            /\ tpc = "done"
            /\ tresult = "returned"
            /\ treturn = served[i]

\* [Running, Running, Succeeded] has returned success after exactly 3 polls
C6_Witness ==
    /\ Len(served) = 3
    /\ served[1].status = "Running" /\ served[2].status = "Running"
    /\ served[3].status = "Succeeded"
    /\ tresult = "returned" /\ attempt = 3

\* C7: when max_wait has elapsed and no poll has reported a terminal status,
\* the tracker has failed with the timeout error or is about to (it polls no
\* more); and the tracker has returned a result only if its last poll
\* observed a terminal-success status, which is the document it returns.
C7_TimeoutIsHardFailure ==
    /\ (tpc = "done" /\ elapsed >= max_wait_seconds
          /\ \A i \in 1..Len(served) : ~ReportsSuccess(served[i]) /\ ~ReportsFailure(served[i]))
        => tresult = "FabricApiError_timeout"
    /\ tresult = "returned" =>
          /\ Len(served) > 0
          /\ ReportsSuccess(LastServed)
          /\ treturn = LastServed
    /\ Len(served) > 0 => (Len(served) - 1) * poll_interval < max_wait_seconds

\* three polls that all answered Running, then the timeout
C7_Witness ==
    /\ tresult = "FabricApiError_timeout"
    /\ Len(served) = 3
    /\ \A i \in 1..3 : served[i].status = "Running"

\* C8: when the i-th answer is failed or cancelled (in any letter case), the
\* tracker has raised the operation error at once, after exactly i polls,
\* carrying the answer's error field, or the whole document when it has none.
C8_FailureRaisesWithPayload ==
    \A i \in 1..Len(served) :
        ReportsFailure(served[i]) =>
            /\ i = Len(served)
            /\ attempt = i
            /\ tpc = "done"
            /\ tresult = "FabricApiError_operation"
            /\ IF served[i].error # NoError
               THEN error_info.kind = "error_field" /\ error_info.error = served[i].error
               ELSE error_info = served[i]

\* a failure with an error field, after one non-terminal poll
C8_Witness ==
    /\ Len(served) = 2
    /\ served[2].status = "Failed" /\ served[2].error # NoError
    /\ tresult = "FabricApiError_operation"
    /\ error_info.kind = "error_field"

\* C9: a poll answering running, notstarted, inprogress, an unrecognized
\* status or no status does not end tracking: the tracker has slept one
\* interval per poll and is back at the loop test (where only the elapsed
\* time can end it); and an unrecognized status followed by a
\* terminal-success status has returned success.
C9_NonTerminalKeepsPolling ==
    /\ (Len(served) > 0 /\ ReportsNonTerminal(LastServed)) =>
          /\ elapsed = Len(served) * poll_interval
          /\ tresult \in {"none", "FabricApiError_timeout"}
          /\ tpc = "done" => elapsed >= max_wait_seconds
    /\ \A i \in 1..(Len(served) - 1) :
          (ReportsUnrecognized(served[i]) /\ ReportsSuccess(served[i + 1]))
              => tresult = "returned"

\* an unrecognized status, then a document without status, then Completed
C9_Witness ==
    /\ Len(served) = 3
    /\ served[1].status = "Undefined"
    /\ served[2].statusKind = "missing" /\ served[2].kind = "object"
    /\ served[3].status = "Completed"
    /\ tresult = "returned"

\* C10: a failed poll (transport error, non-2xx answer, unparsable body) is
\* not propagated, and the tracker raises nothing but the operation error
\* and the timeout error.
C10_OnlyOperationAndTimeoutErrors ==
    /\ (Len(served) > 0 /\ SwallowedPoll(LastServed)) =>
          tresult \in {"none", "FabricApiError_timeout"}
    /\ tresult \in {"none", "returned", "FabricApiError_operation", "FabricApiError_timeout"}

(***************************************************************************)
(* Properties of a deployment run (Spec) and of two publishes in sequence  *)
(* (TwiceSpec).                                                            *)
(***************************************************************************)
\* the workspace a folder of the current run is published to
WorkspaceOf(folder) ==
    IF script = "deploy"
    THEN GetWorkspaceForArtifact(Stem(folder), ItemTypeOf(folder), DeployEnv, workspace_mapping)
    ELSE DevWorkspace
CountOf(folder, workspace_id) == Cardinality(ItemsOfKey(ArtifactKey(folder, workspace_id)))

\* C1: no report's deployment begins (its loop body starts, the publisher is
\* invoked for it) before every semantic-model folder found has finished
\* its publish attempt, succeeded or failed.
C1_ReportsAfterSemanticModels ==
    (attempted \cap ReportFolders # {} \/ pub.item_type = "Report")
        => Found(script, SemanticFolders) \subseteq finished

\* a report has begun in the mapping-driven driver after one semantic model
\* has failed and the other has been published
C1_Witness ==
    /\ script = "deploy"
    /\ attempted \cap ReportFolders # {}
    /\ Failed \cap SemanticFolders # {}
    /\ succeeded \cap SemanticFolders # {}

\* C2: when a run ends, every artifact folder found has been attempted,
\* whatever subset of them failed.
C2_EveryArtifactAttempted ==
    dpc \in {"done", "crashed"} =>
        /\ attempted = Found(script, Folders)
        /\ finished = attempted

\* C3: when a run ends, its exit status is zero if and only if no artifact
\* failed.
C3_ExitStatusReflectsFailures ==
    dpc \in {"done", "crashed"} => (exit_status = "0" <=> Failed = {})

\* C4: the same artifact published twice in sequence, both publishes
\* returning, the item absent before the first: exactly one item of that
\* name and type exists, the first publish issued one create and no update,
\* the second no create and one update, against the id the first returned,
\* which is the id of that item.
C4_SecondPublishUpdates ==
    (calls = 2 /\ pub.pc = "returned" /\ first.ended = "returned" /\ first.absent) =>
        /\ CountOf(first.folder, first.ws) = 1
        /\ first.creates = 1 /\ first.updates = 0
        /\ pub.creates = 0 /\ pub.updates = 1
        /\ pub.target = first.item_id
        /\ \E it \in ItemsOfKey(ArtifactKey(first.folder, first.ws)) : it.id = pub.target

\* a report created by the first publish and updated by the second
C4_Witness ==
    /\ calls = 2 /\ pub.pc = "returned" /\ first.ended = "returned" /\ first.absent
    /\ pub.item_type = "Report"
    /\ first.creates = 1 /\ pub.updates = 1

\* C5 as claimed: after a kill and a re-run that has completed, no artifact
\* has more than one item, and every artifact the re-run published has
\* exactly one.
C5_ExactlyOneItemAfterRerun ==
    (run > 1 /\ dpc = "done") =>
        \A f \in Folders :
            /\ CountOf(f, WorkspaceOf(f)) <= 1
            /\ f \in succeeded => CountOf(f, WorkspaceOf(f)) = 1

\* C5 as amended: an artifact has more than one item only if a lookup saw it
\* absent while a create accepted for it was still pending; and every
\* artifact a run has published has an item.
C5_NoDuplicateUnlessCreatePending ==
    \A f \in Folders :
        /\ ArtifactKey(f, WorkspaceOf(f)) \notin raced => CountOf(f, WorkspaceOf(f)) <= 1
        /\ f \in succeeded => CountOf(f, WorkspaceOf(f)) >= 1

\* the re-run has found by name the item the killed run created and has
\* updated it
C5_Witness ==
    /\ run = 2 /\ raced = {}
    /\ pub.pc = "returned" /\ pub.updates = 1 /\ pub.creates = 0
    /\ CountOf(pub.folder, pub.ws) = 1

(***************************************************************************)
(* Properties of workspace resolution (ResolverSpec).  The four lookup     *)
(* steps are read off the mapping file directly, not through LookupEntry.  *)
(***************************************************************************)
TypeKeyOf(item_type) == IF item_type = "SemanticModel" THEN "semanticmodel" ELSE "report"
\* the entry's type-specific sub-map, environment key
TypedStep(entry, q) ==
    IF entry \in DOMAIN workspace_mapping
       /\ TypeKeyOf(q.item_type) \in DOMAIN workspace_mapping[entry]
    THEN Get(workspace_mapping[entry][TypeKeyOf(q.item_type)], q.environment)
    ELSE NoneVal
\* the entry's legacy flat environment key
FlatStep(entry, q) ==
    IF entry \in DOMAIN workspace_mapping
    THEN Get(workspace_mapping[entry], q.environment)
    ELSE NoneVal
LookupSteps(q) ==
    <<TypedStep(q.artifact_name, q), FlatStep(q.artifact_name, q),
      TypedStep("default", q), FlatStep("default", q)>>
Hits(q) == {i \in 1..4 : Truthy(LookupSteps(q)[i])}
FirstHit(q) ==
    IF Hits(q) = {} THEN WorkspaceNotMapped
    ELSE LookupSteps(q)[CHOOSE i \in Hits(q) : \A j \in Hits(q) : i <= j]

\* C11: workspace resolution returns the first non-empty value of the four
\* steps artifact/typed, artifact/flat, default/typed, default/flat, and
\* fails when none has one.
C11_FirstHitOfFourSteps ==
    query # NoQuery => resolved = FirstHit(query)

\* C12: an artifact absent from the mapping resolves to what the default
\* entry holds for the item type and environment; when none of the four
\* steps has a non-empty value the resolution fails; and no resolution
\* returns an empty or null workspace.
C12_DefaultOrFailure ==
    query # NoQuery =>
        /\ resolved \notin {"", NoneVal, FallThrough}
        /\ (query.artifact_name \notin DOMAIN workspace_mapping
            /\ Truthy(TypedStep("default", query)))
               => resolved = TypedStep("default", query)
        /\ Hits(query) = {} => resolved = WorkspaceNotMapped

\* an unmapped artifact has been resolved through a default entry whose
\* sub-map for the other type is empty for the environment
C12_Witness ==
    /\ query # NoQuery
    /\ query.artifact_name \notin DOMAIN workspace_mapping
    /\ query.item_type = "Report"
    /\ "default" \in DOMAIN workspace_mapping
    /\ "semanticmodel" \in DOMAIN workspace_mapping["default"]
    /\ Get(workspace_mapping["default"]["semanticmodel"], DeployEnv) = ""
    /\ resolved = "W3"

(***************************************************************************)
(* Properties of one invocation of the item publisher, within a run        *)
(* (Spec).                                                                 *)
(***************************************************************************)
Creating == pub.creates = 1
Updating == pub.updates = 1
\* the invocation has reported the item as published, or is past that point
ReportsPublished == pub.pc \in {"returned", "rebind"}

\* C13: a create answered 202 without an operation URL is not failed at
\* once: the publisher polls the list of items, and ends by returning the
\* item's id or, the attempts used up, by failing with a publish timeout.
C13_PollsWithoutLocation ==
    (Creating /\ pub.answer = "202_no_location") =>
        \/ pub.pc \in {"relist", "rrelist", "returned", "rebind"}
        \/ pub.pc = "raised" /\ pub.err = "PublishTimeout"

\* C14: a create answered with anything but 201 or 202 makes the publish
\* fail, for both item types, and the item is never reported as created.
C14_UnexpectedCreateStatusFails ==
    (Creating /\ pub.answer \in {"http_error", "2xx_other"}) =>
        /\ pub.pc = "raised"
        /\ pub.err \in {"ApiError", "UnexpectedStatus", "ItemNotFound"}
        /\ pub.item_id = 0 /\ pub.rebinds = 0
        /\ pub.folder \notin succeeded

\* a semantic-model create has been answered with another 2xx status
C14_Witness ==
    /\ Creating /\ pub.answer = "2xx_other"
    /\ pub.item_type = "SemanticModel"
    /\ pub.err = "UnexpectedStatus"

\* C15: on the update path, for both item types, 200 ends in updated at
\* once, 202 ends in updated only after the tracked operation succeeded (or
\* untracked, when no operation URL came), and any other status makes the
\* publish fail instead of being reported as updated.
C15_UpdateStatusBranches ==
    Updating =>
        /\ pub.answer = "200" => (ReportsPublished \/ pub.rebinds = 1)
        /\ (pub.answer = "202_location" /\ (ReportsPublished \/ pub.rebinds = 1))
               => pub.tracked = "succeeded"
        /\ pub.answer = "202_no_location" => (ReportsPublished \/ pub.rebinds = 1)
        /\ pub.answer \in {"http_error", "2xx_other"}
               => (pub.pc = "raised" /\ pub.err \in {"ApiError", "UpdateFailed"})

\* C16: when the operation the publisher tracked ended in failed, cancelled
\* or timeout, the publisher never returns an item id: the tracker's error
\* is the invocation's error, no rebind follows, and the artifact is not
\* counted as published.
C16_TrackerErrorIsFatal ==
    /\ pub.tracked \in {"failed", "cancelled", "timeout"} =>
          /\ pub.pc = "raised"
          /\ pub.err \in {"OperationFailed", "OperationTimeout"}
          /\ pub.rebinds = 0
    /\ \A f \in Folders :
          error_of[f] \in {"OperationFailed", "OperationTimeout"} => f \notin succeeded

\* the operation behind a report's asynchronous create has failed
C16_Witness ==
    /\ pub.tracked = "failed" /\ Creating
    /\ pub.item_type = "Report"
    /\ pub.err = "OperationFailed"
\* C17: nothing is retried: one invocation of the publisher issues at most
\* one create or one update request, never both and never one twice, and an
\* artifact whose attempt has ended in a run, in success or in failure, is
\* not attempted again in that run.
C17_NothingIsRetried ==
    /\ pub.creates + pub.updates <= 1
    /\ finished \subseteq attempted
    /\ (dpc \in {"semantic", "reports"} /\ pub.pc # "idle")
          => (pub.folder \in attempted /\ pub.folder \notin finished)

\* a later artifact is being published after an earlier one has failed
C17_Witness ==
    /\ dpc = "semantic" /\ Failed # {}
    /\ pub.pc = "returned" /\ pub.creates + pub.updates = 1
    /\ pub.folder \notin Failed
\* C18: a rebind that fails after the report was created or updated does
\* not fail the report's deployment and does not undo it: the report item
\* exists, the deployment returns its id, the artifact is not counted as
\* failed.
C18_RebindFailureIsSoft ==
    /\ (pub.rebinds = 1 /\ pub.rebound \in {"not_ok", "exception"}) =>
          /\ pub.pc = "returned"
          /\ \E it \in items : it.id = pub.item_id /\ it.type = "Report"
    /\ \A f \in ReportFolders : error_of[f] # "TransportError"

\* C19: a report whose semantic model is not found fails with a
\* dataset-not-found error before any create, update or rebind request is
\* issued for it, and the failure stays with that report: the other
\* artifacts of the run are attempted all the same.
C19_DatasetNotFoundStaysLocal ==
    /\ pub.err = "DatasetNotFound" =>
          (pub.creates = 0 /\ pub.updates = 0 /\ pub.rebinds = 0 /\ pub.item_id = 0)
    /\ (dpc \in {"done", "crashed"} /\ \E f \in ReportFolders : error_of[f] = "DatasetNotFound")
          => attempted = Found(script, Folders)

\* C20: for a report, the dataset is located before the report is published
\* and the rebind comes last: when the rebind is due or issued, the dataset
\* id is known, the one create or update request has reached its end (the
\* operation it tracked has succeeded, none is awaited), and the id is that
\* of a report item that exists.
C20_RebindComesLast ==
    /\ (pub.item_type = "Report" /\ pub.creates + pub.updates > 0) => pub.dataset_id # 0
    /\ (pub.pc = "rebind" \/ pub.rebinds > 0) =>
          /\ pub.dataset_id # 0
          /\ pub.creates + pub.updates = 1
          /\ pub.op = 0
          /\ pub.answer = "202_location" => pub.tracked = "succeeded"
          /\ pub.item_id # 0
          /\ \E it \in items : it.id = pub.item_id /\ it.type = "Report"

\* a report created asynchronously has been rebound after its operation
\* succeeded
C20_Witness ==
    /\ pub.rebinds = 1 /\ pub.creates = 1
    /\ pub.answer = "202_location" /\ pub.tracked = "succeeded"
    /\ <<pub.item_id, pub.dataset_id>> \in bound
\* the semantic-model folder a report's definition.pbir names
BackingModels(report) ==
    {f \in SemanticFolders : DisplayName(f) = DatasetNameOfPath(PbirByPath(report))}

\* C21: a report is rebound to a semantic model only after that model's
\* publish has completed in the same run: no rebind is due or issued for a
\* report whose backing model failed or has not been published in this run.
C21_RebindAfterModelPublished ==
    (pub.item_type = "Report" /\ (pub.pc = "rebind" \/ pub.rebinds > 0)) =>
        /\ BackingModels(pub.folder) # {}
        /\ BackingModels(pub.folder) \subseteq succeeded

\* in a re-run, a report has been rebound to the model this run published
C21_Witness ==
    /\ run = 2 /\ pub.item_type = "Report" /\ pub.rebinds = 1 /\ pub.rebound = "ok"
    /\ BackingModels(pub.folder) \subseteq succeeded
    /\ <<pub.item_id, pub.dataset_id>> \in bound


\* a credential variable that is not set, or set to the empty string
MissingCredential == \E n \in CredentialNames : environ[n] \in {NoneVal, ""}

\* C26: with any of the three credentials missing or empty the run fails with
\* an authentication error before any request is sent: nothing reaches the
\* token endpoint, no artifact is attempted and the service is never called.
C26_MissingCredentialFailsBeforeAnyRequest ==
    MissingCredential =>
        /\ token_requests = 0
        /\ attempted = {} /\ pub = Idle /\ items = {} /\ ops = {}
        /\ dpc \in {"start", "fatal", "killed"}
        /\ dpc = "fatal" => start_error = "FabricAuthError_missing" /\ exit_status = "1"

\* a run whose client secret is set but empty has ended with the
\* authentication error and has sent nothing
C26_Witness ==
    /\ environ["FABRIC_CLIENT_SECRET"] = ""
    /\ environ["FABRIC_TENANT_ID"] = "set" /\ environ["FABRIC_CLIENT_ID"] = "set"
    /\ dpc = "fatal" /\ start_error = "FabricAuthError_missing"
    /\ token_requests = 0


(***************************************************************************)
(* Properties of dataset-location resolution (ResolverSpec).  The steps    *)
(* are read off the mapping file directly.                                 *)
(***************************************************************************)
\* the artifact's own entry, EmptyMapping when the file has none
OwnEntry(q) ==
    IF q.artifact_name \in DOMAIN workspace_mapping
    THEN workspace_mapping[q.artifact_name] ELSE EmptyMapping
\* step 1: the explicit dataset_location of the entry for the environment
ExplicitStep(q) ==
    IF "dataset_location" \in DOMAIN OwnEntry(q)
       /\ q.environment \in DOMAIN OwnEntry(q)["dataset_location"]
    THEN OwnEntry(q)["dataset_location"][q.environment]
    ELSE NoLocation
\* steps 2 and 3: the workspace of the semanticmodel sub-map, the flat key
SubMapStep(q) ==
    IF "semanticmodel" \in DOMAIN OwnEntry(q)
    THEN Get(OwnEntry(q)["semanticmodel"], q.environment) ELSE NoneVal
LegacyStep(q) == Get(OwnEntry(q), q.environment)
SameName(workspace_id, q) == [workspace_id |-> workspace_id, dataset_name |-> q.artifact_name]

\* C27: the dataset location of a report is the explicit dataset_location of
\* its entry for the environment if that is non-empty, else the workspace of
\* the entry's semanticmodel sub-map with the artifact's name, else the
\* entry's flat environment value with the artifact's name, else none; the
\* default entry plays no part.
C27_LocationFallbackChain ==
    located # NotLocated =>
        located = IF ExplicitStep(query) # NoLocation THEN ExplicitStep(query)
                  ELSE IF Truthy(SubMapStep(query)) THEN SameName(SubMapStep(query), query)
                  ELSE IF Truthy(LegacyStep(query)) THEN SameName(LegacyStep(query), query)
                  ELSE NoLocation

\* a report whose entry has a null dataset_location and an empty
\* semanticmodel sub-map has been located through the flat key, while the
\* default entry holds a dataset_location of its own
C27_Witness ==
    /\ located = [workspace_id |-> "W2", dataset_name |-> MappedArtifact]
    /\ ExplicitStep(query) = NoLocation /\ "dataset_location" \in DOMAIN OwnEntry(query)
    /\ SubMapStep(query) = ""
    /\ "default" \in DOMAIN workspace_mapping
    /\ "dataset_location" \in DOMAIN workspace_mapping["default"]


(***************************************************************************)
(* Properties of packaging (PackSpec).                                     *)
(***************************************************************************)
\* the path of a file relative to the folder, its directories and its name
\* joined with forward slashes
ForwardPath(file) == JoinDirs(file.dir, "/") \o file.name
\* what a payload decodes to
B64Decode(payload) == payload.b64
Built == pack_call.fn = "build_definition_parts_from_folder"
Rewritten == pack_call.fn = "deploy_report_via_fabric_workaround"

\* C22: packaging a folder that holds a file gives one part per file: the
\* paths of the parts are the files' relative paths with forward slashes,
\* pairwise distinct, and each part is tagged InlineBase64 and holds the
\* base64 encoding of the content of the file at its path.
C22_OnePartPerFile ==
    (Built /\ tree # {}) =>
        /\ pack_error = "none"
        /\ Len(parts) = Cardinality(tree)
        /\ {parts[i].path : i \in DOMAIN parts} = {ForwardPath(f) : f \in tree}
        /\ \A i, j \in DOMAIN parts : i # j => parts[i].path # parts[j].path
        /\ \A i \in DOMAIN parts :
              /\ parts[i].payloadType = "InlineBase64"
              /\ \E f \in tree : /\ ForwardPath(f) = parts[i].path
                                 /\ B64Decode(parts[i].payload) = f.content


PbirParts == {i \in DOMAIN parts : parts[i].path = <<"definition.pbir">>}

ValueOf(connection_string, key) ==
    IF \E i \in 1..(Len(connection_string) - 1) : connection_string[i] = key
    THEN connection_string[(CHOOSE i \in 1..(Len(connection_string) - 1) :
                               connection_string[i] = key) + 1]
    ELSE ""

\* C25: the rewrite of a report whose definition.pbir names its model by
\* path recovers the dataset name from the last segment of the path without
\* its .SemanticModel suffix, and the rewritten reference carries that name
\* as Initial Catalog.
C25_ByNameRewriteCarriesInitialCatalog ==
    Rewritten =>
        /\ pack_call.dataset_name = "Sales"
        /\ \A i \in PbirParts :
              LET ref == JsonLoads(B64Decode(parts[i].payload)).datasetReference
              IN /\ "byConnection" \in DOMAIN ref
                 /\ ValueOf(ref.byConnection.connectionString, "Initial Catalog=")
                        = pack_call.dataset_name


(***************************************************************************)
(* Properties of the publisher called on its own (TwiceSpec).              *)
(***************************************************************************)
\* C23: a definition is submitted only for a folder that holds a file, and
\* publishing a folder that holds none, semantic model or report, ends with
\* the empty-artifact error without a create, update or rebind request.
C23_EmptyFolderFailsAsEmptyArtifact ==
    /\ pub.creates + pub.updates > 0 => FolderFiles(pub.folder) # {}
    /\ (Ended /\ FolderFiles(pub.folder) = {}) =>
          /\ pub.pc = "raised" /\ pub.err = "EmptyArtifact"
          /\ pub.creates = 0 /\ pub.updates = 0 /\ pub.rebinds = 0


\* the items of the publisher's type in its workspace that carry exactly
\* its display name
ExactMatches ==
    {it \in items : it.ws = pub.ws /\ it.type = pub.item_type
                    /\ it.displayName = pub.display_name}

\* C28: the lookup that follows the listing takes the update path, with the
\* id of a listed item whose display name equals the artifact's exactly,
\* when there is such an item, and the create path when there is none, a
\* name that differs in case only counting as absent.
C28_ExactNameDecidesCreateOrUpdate ==
    [][(pub.pc \in {"list", "rlist"} /\ pub'.pc \notin {pub.pc, "raised"}) =>
          IF ExactMatches = {}
          THEN pub'.pc \in {"create", "rcreate"} /\ pub'.item_id = 0
          ELSE /\ pub'.pc \in {"update", "rupdate"}
               /\ pub'.item_id \in {it.id : it \in ExactMatches}]_vars

\* the model Sales is about to be created in a workspace that holds a model
\* named sales
C28_Witness ==
    /\ pub.pc = "create" /\ pub.display_name = "Sales" /\ pub.item_id = 0
    /\ \E it \in items : it.displayName = "sales" /\ it.ws = pub.ws /\ it.type = pub.item_type

\* C29: a publish that has returned holds the id of an item that carries
\* the artifact's display name, type and workspace; and a publish whose
\* re-list after the create showed no such item has ended with an error and
\* without an id.
C29_ReturnedIdIsTheItemOfThatName ==
    /\ pub.pc \in {"returned", "rebind"} =>
          /\ pub.item_id # 0
          /\ \E it \in ExactMatches : it.id = pub.item_id
    /\ pub.err = "ItemNotFound" =>
          pub.pc = "raised" /\ pub.item_id = 0

\* the second publish of an artifact has recovered by its re-list the id of
\* the item that the first publish, whose own re-list did not show it yet,
\* had created
C29_Witness ==
    /\ calls = 2 /\ first.ended = "raised" /\ first.creates = 1
    /\ pub.pc = "returned" /\ pub.updates = 1
    /\ \E it \in ExactMatches : it.id = pub.item_id


(***************************************************************************)
(* Termination of the tracker (TrackerFairSpec).                           *)
(***************************************************************************)
\* C30: whatever the polls answer, the tracker ends, and ends with the
\* operation's document, the operation error or the timeout error; with
\* max_wait_seconds = 0 it ends with the timeout error without a poll.
C30_TrackerEndsWithOneOfThree ==
    /\ <>(tpc = "done" /\ tresult \in {"returned", "FabricApiError_operation",
                                        "FabricApiError_timeout"})
    /\ [](tpc = "done" /\ max_wait_seconds = 0 =>
             attempt = 0 /\ tresult = "FabricApiError_timeout")


(***************************************************************************)
(* Properties of the report loop of the mapping-driven driver (Spec).      *)
(***************************************************************************)
\* the reports the mapping-driven driver is done with, whose workspace the
\* mapping gives
MappedReportsDone ==
    {f \in ReportFolders \cap finished :
        /\ script = "deploy"
        /\ GetWorkspaceForArtifact(Stem(f), "Report", DeployEnv, workspace_mapping)
               # WorkspaceNotMapped}
\* the mapping names a dataset location for the report
HasLocation(f) ==
    /\ Stem(f) \in DOMAIN workspace_mapping
    /\ \/ /\ "dataset_location" \in DOMAIN workspace_mapping[Stem(f)]
          /\ DeployEnv \in DOMAIN workspace_mapping[Stem(f)]["dataset_location"]
       \/ /\ "semanticmodel" \in DOMAIN workspace_mapping[Stem(f)]
          /\ Truthy(Get(workspace_mapping[Stem(f)]["semanticmodel"], DeployEnv))
       \/ Truthy(Get(workspace_mapping[Stem(f)], DeployEnv))

\* C31: in the mapping-driven driver a report for which the mapping names no
\* dataset location is still published, without a rebind request; and for
\* any report a rebind is on the service only if a dataset was resolved for
\* it.
C31_ReportWithoutLocationIsPublished ==
    /\ \A f \in MappedReportsDone :
          ~HasLocation(f) => f \in succeeded /\ error_of[f] = "none"
    /\ script = "deploy" => \A f \in ReportFolders : ~HasLocation(f) => bound = {}

====
